---- MODULE Spec2Model ----
(***************************************************************************)
(* Model of the redis-operator reconcile pass.                             *)
(*                                                                         *)
(*   RedisFailoverHandler.Add / Ensure / setRedisFailoverStatus            *)
(*   RedisFailoverHealer.SetOldestAsMaster / SetMasterOnAll /              *)
(*   NewSentinelMonitor / RestoreSentinel, getQuorum                       *)
(*                                                                         *)
(* The handler is modelled as a sequential process whose position is pc;   *)
(* passes of one instance are serialized, so one process is enough.  Each  *)
(* stage is one step; the calls a stage issues are kept, in order, in the  *)
(* log "calls", and the returns of the stages and healer operations in     *)
(* "stages".                                                               *)
(*                                                                         *)
(* CheckAndHeal, Validate, the checker and the redis / k8s clients are     *)
(* not part of the sources at hand; they are modelled from the design      *)
(* document and marked so in the map.                                      *)
(*                                                                         *)
(* Pods are numbered from the oldest on (a renaming: roles, faults and     *)
(* listing orders are arbitrary); pod i has address i, or none.            *)
(***************************************************************************)
EXTENDS Integers, Sequences, FiniteSets, TLC

(* ------------------------------ bounds --------------------------------- *)
MaxPods == 3
MaxSentinels == 2
MaxReplicas == 5
MaxFaulty == 1

(* ------------------------- program constants --------------------------- *)
\* newMasterIP := "" and the PodIP of a pod that has no address yet
NoIP == 0
\* the largest int32, the type of the replica counts and of the quorum
MaxInt32 == 2147483647

(* ------------------------------ helpers -------------------------------- *)
Range(s) == {s[i] : i \in 1..Len(s)}

\* all orders in which a listing can return n objects
Orders(n) == {p \in [1..n -> 1..n] : \A i, j \in 1..n : i # j => p[i] # p[j]}

Min(S) == CHOOSE x \in S : \A y \in S : x <= y

\* Go integer division truncates toward zero
GoDiv(a, b) == IF a >= 0 THEN a \div b ELSE -((-a) \div b)

DigitChars == <<"0", "1", "2", "3", "4", "5", "6", "7", "8", "9">>

RECURSIVE NatDigits(_)
NatDigits(n) ==
    IF n < 10 THEN <<DigitChars[n + 1]>>
    ELSE NatDigits(n \div 10) \o <<DigitChars[(n % 10) + 1]>>

\* strconv.Itoa: the decimal text of an int, as a sequence of characters
Itoa(n) == IF n < 0 THEN <<"-">> \o NatDigits(-n) ELSE NatDigits(n)

DigitValue(c) == (CHOOSE k \in 1..10 : DigitChars[k] = c) - 1

RECURSIVE ParseNat(_)
ParseNat(s) ==
    IF Len(s) = 0 THEN 0
    ELSE 10 * ParseNat(SubSeq(s, 1, Len(s) - 1)) + DigitValue(s[Len(s)])

\* how a sentinel reads the quorum argument of SENTINEL MONITOR
ParseQuorum(s) ==
    IF Len(s) > 0 /\ s[1] = "-" THEN -ParseNat(Tail(s)) ELSE ParseNat(s)

(* ------------------------------- state --------------------------------- *)
VARIABLES
    pods,        \* the redis stateful set pods known to the object store
    nodes,       \* the redis process of each pod: reachable?, followed master
    sentinels,   \* the live sentinel processes: monitored master, quorum
    objects,     \* the managed object kinds present in the object store
    stored,      \* the RedisFailover resource as the object store holds it
    rf,          \* the RedisFailover object the running pass works on
    pc,          \* position of the handler inside Add
    result,      \* what Add returned: "none" while running, "nil" or "err"
    calls,       \* the calls issued by the running pass, in order
    stages,      \* the stages of Add that returned in this pass, in order
    listed,      \* the pod listing the last healer invocation was returned
    metric       \* SetClusterOK / SetClusterError as last recorded

vars == <<pods, nodes, sentinels, objects, stored, rf, pc, result, calls,
          stages, listed, metric>>

NPods == Len(pods)
PodIds == 1..NPods
SentinelIds == 1..Len(sentinels)

(* --------------------------- RedisFailover ----------------------------- *)
\* metav1.OwnerReference to the one RedisFailover instance of the model
ControllerRef == [Kind |-> "RedisFailover", Controller |-> TRUE]

\* a nil pointer is the empty sequence, a pointer to x is <<x>>
Nil == <<>>

\* corev1.PersistentVolumeClaim, reduced to its owner references
PersistentVolumeClaim(ownerRefs) == [OwnerReferences |-> ownerRefs]

\* RedisStorage
RedisStorage(keepAfterDeletion, persistentVolumeClaim) ==
    [KeepAfterDeletion     |-> keepAfterDeletion,
     PersistentVolumeClaim |-> persistentVolumeClaim]

\* RedisFailoverSpec, reduced to the fields the pass reads; no custom
\* config lines and no storage unless set by WithStorage / WithCustomConfig
RedisFailoverSpec(redisReplicas, sentinelReplicas, exporter) ==
    [Redis    |-> [Replicas     |-> redisReplicas,
                   CustomConfig |-> <<>>,
                   Storage      |-> RedisStorage(FALSE, Nil),
                   Exporter     |-> [Enabled |-> exporter]],
     Sentinel |-> [Replicas     |-> sentinelReplicas,
                   CustomConfig |-> <<>>]]

WithStorage(spec, storage) == [spec EXCEPT !.Redis.Storage = storage]

WithCustomConfig(spec, redisLines, sentinelLines) ==
    [spec EXCEPT !.Redis.CustomConfig = redisLines,
                 !.Sentinel.CustomConfig = sentinelLines]

\* RedisFailoverStatus
RedisFailoverStatus(redisNodes, sentinelNodes) ==
    [RedisNodes |-> redisNodes, SentinelNodes |-> sentinelNodes]

\* RedisNode
RedisNode(podIP, hostIP, isMaster) ==
    [PodIP |-> podIP, HostIP |-> hostIP, IsMaster |-> isMaster]

\* SentinelNode
SentinelNode(podIP, hostIP) == [PodIP |-> podIP, HostIP |-> hostIP]

RedisFailover(spec, status) == [Spec |-> spec, Status |-> status]

\* rf.Validate: the semantic checks of the declared spec
Validate(r) == r.Spec.Redis.Replicas > 0 /\ r.Spec.Sentinel.Replicas > 0

\* getQuorum without the majority step
getQuorum_Half(r) == GoDiv(r.Spec.Sentinel.Replicas, 2)

\* getQuorum rounding the half up
getQuorum_RoundUp(r) == GoDiv(r.Spec.Sentinel.Replicas + 1, 2) + 1

\* getQuorum: int32 arithmetic; N/2 + 1 is at most 2^30 for every int32 N,
\* so the sum never wraps and the width plays no part
getQuorum(r) == GoDiv(r.Spec.Sentinel.Replicas, 2) + 1

(* --------------------------- call records ------------------------------ *)
Call(op, ip, arg, ok) == [op |-> op, ip |-> ip, arg |-> arg, ok |-> ok]

NoArg == <<>>

(* ---------------------------- redis client ----------------------------- *)
\* the pods a command sent to address ip reaches
NodeAt(ip) == {i \in PodIds : ip # NoIP /\ pods[i].PodIP = ip}

\* a command to ip is answered when a reachable node listens there and
\* does not refuse it; rej is the set of nodes refusing commands.  No node
\* listens at the empty address: a command sent to a pod that has no
\* address yet reaches no pod.
Answers(ip, rej) ==
    /\ NodeAt(ip) # {}
    /\ \A i \in NodeAt(ip) : nodes[i].up /\ i \notin rej

\* the sets of nodes that may refuse commands during one operation; an
\* operation stops at the first call that fails, so one refusing node
\* stands for any larger set
Refusing(ids) == {{}} \cup {{i} : i \in ids}

\* a command the client sends for the empty address goes to no pod: the
\* client dials its own host, and st.emptyAnswers tells whether a redis
\* process answers there
AnswersAt(st, ip, rej) ==
    Answers(ip, rej) \/ (ip = NoIP /\ st.emptyAnswers)

\* redisClient.MakeMaster(ip, password): SLAVEOF NO ONE
MakeMaster(st, ip, rej) ==
    LET ok == AnswersAt(st, ip, rej)
    IN  [st EXCEPT
           !.nodes = IF ok
                     THEN [i \in DOMAIN st.nodes |->
                             IF i \in NodeAt(ip)
                             THEN [st.nodes[i] EXCEPT !.slaveOf = NoIP]
                             ELSE st.nodes[i]]
                     ELSE st.nodes,
           !.calls = Append(st.calls, Call("MakeMaster", ip, NoArg, ok)),
           !.err   = ~ok]

\* redisClient.MakeSlaveOf(ip, masterIP, password): SLAVEOF masterIP
MakeSlaveOf(st, ip, masterIP, rej) ==
    LET ok == AnswersAt(st, ip, rej)
    IN  [st EXCEPT
           !.nodes = IF ok
                     THEN [i \in DOMAIN st.nodes |->
                             IF i \in NodeAt(ip)
                             THEN [st.nodes[i] EXCEPT !.slaveOf = masterIP]
                             ELSE st.nodes[i]]
                     ELSE st.nodes,
           !.calls = Append(st.calls, Call("MakeSlaveOf", ip, masterIP, ok)),
           !.err   = ~ok]

\* k8sService.GetStatefulSetPods as seen in the call log
ListCall(ok) == Call("GetStatefulSetPods", NoIP, NoArg, ok)

(* ------------------------------ healer --------------------------------- *)
\* metav1.Time.Before on creation timestamps
Before(i, j) == pods[i].CreationTimestamp < pods[j].CreationTimestamp

\* SetOldestAsMaster without the sort: the pods stay as listed
SortSlice_AsListed(items) == {items}

\* sort.Slice(ssp.Items, less): the permutations of items that are ordered
\* by less; the sort is not stable, equal elements end in any order
SortSlice(items) ==
    {sorted \in {[k \in 1..Len(items) |-> items[p[k]]] : p \in Orders(Len(items))} :
        \A a, b \in 1..Len(sorted) : a < b => ~Before(sorted[b], sorted[a])}

\* SetOldestAsMaster never remembering the promoted address: every pod
\* takes the branch of the first one
RECURSIVE SetOldestLoop_PromotesAll(_, _, _, _, _)
SetOldestLoop_PromotesAll(items, k, newMasterIP, st, rej) ==
    IF k > Len(items) THEN st
    ELSE LET r == MakeMaster(st, pods[items[k]].PodIP, rej)
         IN  IF r.err THEN r
             ELSE SetOldestLoop_PromotesAll(items, k + 1, newMasterIP, r, rej)

\* SetOldestAsMaster with the arguments of MakeSlaveOf exchanged
RECURSIVE SetOldestLoop_Exchanged(_, _, _, _, _)
SetOldestLoop_Exchanged(items, k, newMasterIP, st, rej) ==
    IF k > Len(items) THEN st
    ELSE LET podIP == pods[items[k]].PodIP
         IN  IF newMasterIP = NoIP
             THEN LET r == MakeMaster(st, podIP, rej)
                  IN  IF r.err THEN r
                      ELSE SetOldestLoop_Exchanged(items, k + 1, podIP, r, rej)
             ELSE LET r == MakeSlaveOf(st, newMasterIP, podIP, rej)
                  IN  IF r.err THEN r
                      ELSE SetOldestLoop_Exchanged(items, k + 1, newMasterIP, r, rej)

\* SetOldestAsMaster going on after a failed MakeMaster as if the pod had
\* been promoted
RECURSIVE SetOldestLoop_IgnoresPromoteError(_, _, _, _, _)
SetOldestLoop_IgnoresPromoteError(items, k, newMasterIP, st, rej) ==
    IF k > Len(items) THEN st
    ELSE LET podIP == pods[items[k]].PodIP
         IN  IF newMasterIP = NoIP /\ k = 1
             THEN LET r == MakeMaster(st, podIP, rej)
                  IN  SetOldestLoop_IgnoresPromoteError(
                          items, k + 1, IF podIP = NoIP THEN MaxPods + 1 ELSE podIP,
                          [r EXCEPT !.err = FALSE], rej)
             ELSE LET r == MakeSlaveOf(st, podIP, newMasterIP, rej)
                  IN  IF r.err THEN r
                      ELSE SetOldestLoop_IgnoresPromoteError(
                               items, k + 1, newMasterIP, r, rej)

\* the loop of SetOldestAsMaster over the sorted pods, from position k
RECURSIVE SetOldestLoop(_, _, _, _, _)
SetOldestLoop(items, k, newMasterIP, st, rej) ==
    IF k > Len(items) THEN st
    ELSE LET podIP == pods[items[k]].PodIP
         IN  IF newMasterIP = NoIP
             THEN LET r == MakeMaster(st, podIP, rej)
                  IN  IF r.err THEN r
                      ELSE SetOldestLoop(items, k + 1, podIP, r, rej)
             ELSE LET r == MakeSlaveOf(st, podIP, newMasterIP, rej)
                  IN  IF r.err THEN r
                      ELSE SetOldestLoop(items, k + 1, newMasterIP, r, rej)

\* SetOldestAsMaster without the check for an empty pod list
SetOldestAsMaster_NoEmptyCheck(st, listErr, items, sorted, rej) ==
    IF listErr
    THEN [st EXCEPT !.calls = Append(st.calls, ListCall(FALSE)), !.err = TRUE]
    ELSE SetOldestLoop(sorted, 1, NoIP,
                       [st EXCEPT !.calls = Append(st.calls, ListCall(TRUE))],
                       rej)

\* RedisFailoverHealer.SetOldestAsMaster; listErr: the pod listing fails,
\* items: the pods in the order listed, sorted: the outcome of the sort
SetOldestAsMaster(st, listErr, items, sorted, rej) ==
    IF listErr
    THEN [st EXCEPT !.calls = Append(st.calls, ListCall(FALSE)), !.err = TRUE]
    ELSE LET s1 == [st EXCEPT !.calls = Append(st.calls, ListCall(TRUE))]
         IN  IF Len(items) < 1 THEN [s1 EXCEPT !.err = TRUE]
             ELSE SetOldestLoop(sorted, 1, NoIP, s1, rej)

\* SetMasterOnAll going on to the next pod after a failed call
RECURSIVE SetMasterLoop_SkipsFailed(_, _, _, _, _)
SetMasterLoop_SkipsFailed(items, k, masterIP, st, rej) ==
    IF k > Len(items) THEN st
    ELSE LET podIP == pods[items[k]].PodIP
             r == IF podIP = masterIP
                  THEN MakeMaster(st, masterIP, rej)
                  ELSE MakeSlaveOf(st, podIP, masterIP, rej)
         IN  SetMasterLoop_SkipsFailed(items, k + 1, masterIP,
                                       [r EXCEPT !.err = FALSE], rej)

\* SetMasterOnAll with the arguments of MakeSlaveOf exchanged
RECURSIVE SetMasterLoop_Exchanged(_, _, _, _, _)
SetMasterLoop_Exchanged(items, k, masterIP, st, rej) ==
    IF k > Len(items) THEN st
    ELSE LET podIP == pods[items[k]].PodIP
             r == IF podIP = masterIP
                  THEN MakeMaster(st, masterIP, rej)
                  ELSE MakeSlaveOf(st, masterIP, podIP, rej)
         IN  IF r.err THEN r
             ELSE SetMasterLoop_Exchanged(items, k + 1, masterIP, r, rej)

\* SetMasterOnAll re-asserting the master only: the other pods are left
\* as they are
RECURSIVE SetMasterLoop_PromotesOnly(_, _, _, _, _)
SetMasterLoop_PromotesOnly(items, k, masterIP, st, rej) ==
    IF k > Len(items) THEN st
    ELSE LET podIP == pods[items[k]].PodIP
         IN  IF podIP = masterIP
             THEN LET r == MakeMaster(st, masterIP, rej)
                  IN  IF r.err THEN r
                      ELSE SetMasterLoop_PromotesOnly(items, k + 1, masterIP, r, rej)
             ELSE SetMasterLoop_PromotesOnly(items, k + 1, masterIP, st, rej)

\* SetMasterOnAll undoing its work when a call fails: the pods it has
\* gone through are made masters again
RECURSIVE SetMasterLoop_UndoesOnFailure(_, _, _, _, _)
SetMasterLoop_UndoesOnFailure(items, k, masterIP, st, rej) ==
    IF k > Len(items) THEN st
    ELSE LET podIP == pods[items[k]].PodIP
             r == IF podIP = masterIP
                  THEN MakeMaster(st, masterIP, rej)
                  ELSE MakeSlaveOf(st, podIP, masterIP, rej)
         IN  IF r.err
             THEN [r EXCEPT !.nodes =
                      [i \in DOMAIN st.nodes |->
                         IF \E j \in 1..(k - 1) : items[j] = i
                         THEN [st.nodes[i] EXCEPT !.slaveOf = NoIP]
                         ELSE st.nodes[i]]]
             ELSE SetMasterLoop_UndoesOnFailure(items, k + 1, masterIP, r, rej)

\* SetMasterOnAll sending MakeSlaveOf to every pod, the master included
RECURSIVE SetMasterLoop_DemotesAll(_, _, _, _, _)
SetMasterLoop_DemotesAll(items, k, masterIP, st, rej) ==
    IF k > Len(items) THEN st
    ELSE LET r == MakeSlaveOf(st, pods[items[k]].PodIP, masterIP, rej)
         IN  IF r.err THEN r
             ELSE SetMasterLoop_DemotesAll(items, k + 1, masterIP, r, rej)

\* the loop of SetMasterOnAll over the listed pods, from position k
RECURSIVE SetMasterLoop(_, _, _, _, _)
SetMasterLoop(items, k, masterIP, st, rej) ==
    IF k > Len(items) THEN st
    ELSE LET podIP == pods[items[k]].PodIP
             r == IF podIP = masterIP
                  THEN MakeMaster(st, masterIP, rej)
                  ELSE MakeSlaveOf(st, podIP, masterIP, rej)
         IN  IF r.err THEN r
             ELSE SetMasterLoop(items, k + 1, masterIP, r, rej)

\* RedisFailoverHealer.SetMasterOnAll
SetMasterOnAll(st, masterIP, listErr, items, rej) ==
    IF listErr
    THEN [st EXCEPT !.calls = Append(st.calls, ListCall(FALSE)), !.err = TRUE]
    ELSE SetMasterLoop(items, 1, masterIP,
                       [st EXCEPT !.calls = Append(st.calls, ListCall(TRUE))],
                       rej)

(* --------------------------- sentinel client --------------------------- *)
SentinelAt(ip) == {j \in SentinelIds : sentinels[j].PodIP = ip}

\* redisClient.MonitorRedis(ip, monitor, quorum): the sentinel at ip
\* monitors the master at address monitor with the quorum it is sent
MonitorRedis(st, ip, monitor, quorum, rej) ==
    LET ok == SentinelAt(ip) # {} /\ SentinelAt(ip) \cap rej = {}
    IN  [sentinels |-> IF ok
                       THEN [j \in DOMAIN st.sentinels |->
                               IF j \in SentinelAt(ip)
                               THEN [st.sentinels[j] EXCEPT
                                       !.monitor = monitor,
                                       !.quorum = ParseQuorum(quorum)]
                               ELSE st.sentinels[j]]
                       ELSE st.sentinels,
         calls |-> Append(st.calls, Call("MonitorRedis", ip,
                                         <<monitor, quorum>>, ok)),
         err   |-> ~ok]

\* redisClient.ResetSentinel(ip)
ResetSentinel(st, ip, rej) ==
    LET ok == SentinelAt(ip) # {} /\ SentinelAt(ip) \cap rej = {}
    IN  [st EXCEPT !.calls = Append(st.calls,
                                    Call("ResetSentinel", ip, NoArg, ok)),
                   !.err = ~ok]

\* RedisFailoverHealer.NewSentinelMonitor
NewSentinelMonitor(st, ip, monitor, r, rej) ==
    LET quorum == Itoa(getQuorum(r))
    IN  MonitorRedis(st, ip, monitor, quorum, rej)

\* RedisFailoverHealer.RestoreSentinel
RestoreSentinel(st, ip, rej) == ResetSentinel(st, ip, rej)

\* redisClient.SetCustomRedisConfig(ip, password, configs): the node at ip
\* applies the config lines it is sent
SetCustomRedisConfig(st, ip, configs, rej) ==
    LET ok == Answers(ip, rej)
    IN  [nodes |-> IF ok
                   THEN [i \in DOMAIN st.nodes |->
                           IF i \in NodeAt(ip)
                           THEN [st.nodes[i] EXCEPT !.config = configs]
                           ELSE st.nodes[i]]
                   ELSE st.nodes,
         calls |-> Append(st.calls, Call("SetCustomRedisConfig", ip, configs, ok)),
         err   |-> ~ok]

\* redisClient.SetCustomSentinelConfig(ip, configs)
SetCustomSentinelConfig(st, ip, configs, rej) ==
    LET ok == SentinelAt(ip) # {} /\ SentinelAt(ip) \cap rej = {}
    IN  [sentinels |-> IF ok
                       THEN [j \in DOMAIN st.sentinels |->
                               IF j \in SentinelAt(ip)
                               THEN [st.sentinels[j] EXCEPT !.config = configs]
                               ELSE st.sentinels[j]]
                       ELSE st.sentinels,
         calls |-> Append(st.calls,
                          Call("SetCustomSentinelConfig", ip, configs, ok)),
         err   |-> ~ok]

\* RedisFailoverHealer.SetSentinelCustomConfig
SetSentinelCustomConfig(st, ip, r, rej) ==
    SetCustomSentinelConfig(st, ip, r.Spec.Sentinel.CustomConfig, rej)

\* RedisFailoverHealer.SetRedisCustomConfig
SetRedisCustomConfig(st, ip, r, rej) ==
    SetCustomRedisConfig(st, ip, r.Spec.Redis.CustomConfig, rej)

(* ------------------------------ checker -------------------------------- *)
\* the live redis nodes: pods that have an address and answer
Live == {i \in PodIds : pods[i].PodIP # NoIP /\ nodes[i].up}

\* the live nodes that report the master role
Masters == {i \in Live : nodes[i].slaveOf = NoIP}

\* the quorum the checker expects: computed from the live sentinel count
ExpectedQuorum == (Len(sentinels) \div 2) + 1

\* SentinelMisconfigured: wrong monitored master or wrong quorum
Misconfigured(sen, masterIP) ==
    sen.monitor # masterIP \/ sen.quorum # ExpectedQuorum

\* oldest-wins choice among the conflicting masters
Survivor(ms) ==
    LET oldest == {i \in ms : \A j \in ms : ~Before(j, i)}
    IN  Min(oldest)

\* the pods of a listing returned in the order o
Listing(o) == [k \in 1..NPods |-> o[k]]

\* Checker.GetRedisesIPandHostIPs: the node views of the live pods
GetRedisesIPandHostIPs(items) ==
    LET live == SelectSeq(items, LAMBDA i : i \in Live)
    IN  [k \in 1..Len(live) |->
           RedisNode(pods[live[k]].PodIP, pods[live[k]].HostIP,
                     nodes[live[k]].slaveOf = NoIP)]

\* the sentinel node views of the live sentinels
SentinelViews ==
    [j \in SentinelIds |-> SentinelNode(sentinels[j].PodIP, sentinels[j].HostIP)]

(* ----------------------------- generators ------------------------------ *)
\* a managed object as the object store holds it: its kind, the owner
\* references of its metadata and, for workloads, the containers of the
\* pod template and the volume claim templates
Object(kind, ownerRefs, containers, claimTemplates) ==
    [kind                 |-> kind,
     OwnerReferences      |-> ownerRefs,
     Containers           |-> containers,
     VolumeClaimTemplates |-> claimTemplates]

generateSentinelService(r, ownerRefs) ==
    Object("SentinelService", ownerRefs, <<>>, <<>>)

generateRedisService(r, ownerRefs) ==
    Object("RedisService", ownerRefs, <<>>, <<>>)

generateSentinelConfigMap(r, ownerRefs) ==
    Object("SentinelConfigMap", ownerRefs, <<>>, <<>>)

generateRedisConfigMap(r, ownerRefs) ==
    Object("RedisConfigMap", ownerRefs, <<>>, <<>>)

generateRedisShutdownConfigMap(r, ownerRefs) ==
    Object("RedisShutdownConfigMap", ownerRefs, <<>>, <<>>)

generateSentinelDeployment(r, ownerRefs) ==
    Object("SentinelDeployment", ownerRefs, <<"sentinel">>, <<>>)

generatePerceptronDeployment(r, ownerRefs) ==
    Object("PerceptronDeployment", ownerRefs, <<"perceptron">>, <<>>)

\* generateRedisStatefulSet: rf is passed by pointer and the claim of its
\* spec is written through that pointer, so the function returns the
\* stateful set (ss) and the RedisFailover as it leaves it (rf)
generateRedisStatefulSet(r, ownerRefs) ==
    LET storage == r.Spec.Redis.Storage
        r1 == IF storage.PersistentVolumeClaim # Nil /\ ~storage.KeepAfterDeletion
              THEN [r EXCEPT !.Spec.Redis.Storage.PersistentVolumeClaim =
                               <<[@[1] EXCEPT !.OwnerReferences = ownerRefs]>>]
              ELSE r
        claimTemplates == r1.Spec.Redis.Storage.PersistentVolumeClaim
        containers == IF r.Spec.Redis.Exporter.Enabled
                      THEN <<"redis", "redis-exporter">>
                      ELSE <<"redis">>
    IN  [ss |-> Object("RedisStatefulset", ownerRefs, containers, claimTemplates),
         rf |-> r1]

(* ------------------------------ ensurer -------------------------------- *)
\* the Ensure calls of RedisFailoverHandler.Ensure, in the order issued
\* Ensure leaving the Redis service alone when the exporter is disabled
EnsureCalls_KeepsService(r) ==
    (IF r.Spec.Redis.Exporter.Enabled THEN <<"EnsureRedisService">> ELSE <<>>)
    \o << "EnsureSentinelService",
          "EnsureSentinelConfigMap",
          "EnsureRedisShutdownConfigMap",
          "EnsureRedisConfigMap",
          "EnsureRedisStatefulset",
          "EnsureSentinelDeployment" >>

EnsureCalls(r) ==
    << IF r.Spec.Redis.Exporter.Enabled
       THEN "EnsureRedisService" ELSE "EnsureNotPresentRedisService",
       "EnsureSentinelService",
       "EnsureSentinelConfigMap",
       "EnsureRedisShutdownConfigMap",
       "EnsureRedisConfigMap",
       "EnsureRedisStatefulset",
       "EnsureSentinelDeployment" >>

\* what an Ensure call generates from rf: the object (obj) and rf as the
\* generator leaves it; EnsureNotPresentRedisService generates nothing
Generated(op, r, ownerRefs) ==
    CASE op = "EnsureRedisService" ->
           [obj |-> <<generateRedisService(r, ownerRefs)>>, rf |-> r]
      [] op = "EnsureNotPresentRedisService" ->
           [obj |-> <<>>, rf |-> r]
      [] op = "EnsureSentinelService" ->
           [obj |-> <<generateSentinelService(r, ownerRefs)>>, rf |-> r]
      [] op = "EnsureSentinelConfigMap" ->
           [obj |-> <<generateSentinelConfigMap(r, ownerRefs)>>, rf |-> r]
      [] op = "EnsureRedisShutdownConfigMap" ->
           [obj |-> <<generateRedisShutdownConfigMap(r, ownerRefs)>>, rf |-> r]
      [] op = "EnsureRedisConfigMap" ->
           [obj |-> <<generateRedisConfigMap(r, ownerRefs)>>, rf |-> r]
      [] op = "EnsureRedisStatefulset" ->
           [obj |-> <<generateRedisStatefulSet(r, ownerRefs).ss>>,
            rf  |-> generateRedisStatefulSet(r, ownerRefs).rf]
      [] op = "EnsureSentinelDeployment" ->
           [obj |-> <<generateSentinelDeployment(r, ownerRefs)>>, rf |-> r]

\* the kind of object an Ensure call manages
KindOf(op) ==
    CASE op \in {"EnsureRedisService", "EnsureNotPresentRedisService"} -> "RedisService"
      [] op = "EnsureSentinelService"        -> "SentinelService"
      [] op = "EnsureSentinelConfigMap"      -> "SentinelConfigMap"
      [] op = "EnsureRedisShutdownConfigMap" -> "RedisShutdownConfigMap"
      [] op = "EnsureRedisConfigMap"         -> "RedisConfigMap"
      [] op = "EnsureRedisStatefulset"       -> "RedisStatefulset"
      [] op = "EnsureSentinelDeployment"     -> "SentinelDeployment"

\* rf after the generators of the calls k..last have been handed it, one
\* after the other
RECURSIVE RfAfter(_, _, _, _, _)
RfAfter(r, ops, k, last, ownerRefs) ==
    IF k > last THEN r
    ELSE RfAfter(Generated(ops[k], r, ownerRefs).rf, ops, k + 1, last, ownerRefs)

\* the object store after the calls 1..done of ops succeeded: each call
\* creates its object or replaces the one of its kind, and
\* EnsureNotPresentRedisService removes it
EnsureEffect(objs, r, ops, done, ownerRefs) ==
    {o \in objs : \A k \in 1..done : o.kind # KindOf(ops[k])}
    \cup UNION {Range(Generated(ops[k], RfAfter(r, ops, 1, k - 1, ownerRefs),
                                ownerRefs).obj) : k \in 1..done}

\* RedisFailoverHandler.Ensure; st.rf is the RedisFailover the calls are
\* handed, fail is the call that returns an error (0: none does) and the
\* last one issued.  A call generates its object before it reaches the
\* object store, so a failed call has generated it, too.
Ensure(st, ownerRefs, fail) ==
    LET ops == EnsureCalls(st.rf)
        issued == IF fail = 0 THEN Len(ops) ELSE fail
        done == IF fail = 0 THEN Len(ops) ELSE fail - 1
    IN  [rf      |-> RfAfter(st.rf, ops, 1, issued, ownerRefs),
         objects |-> EnsureEffect(st.objects, st.rf, ops, done, ownerRefs),
         calls   |-> st.calls \o [k \in 1..issued |->
                                    Call(ops[k], NoIP, NoArg, k # fail)],
         err     |-> fail # 0]

(* ------------------------------ handler -------------------------------- *)
\* createOwnerReferences: the controller reference to rf
createOwnerReferences(r) == <<ControllerRef>>

SetClusterError == Call("SetClusterError", NoIP, NoArg, TRUE)
SetClusterOK == Call("SetClusterOK", NoIP, NoArg, TRUE)

Stage(name, ok) == [stage |-> name, ok |-> ok]

\* Add without the call of rf.Validate
AddBegin_NoValidate ==
    /\ pc = "idle"
    /\ \E isRedisFailover \in BOOLEAN :
         /\ rf' = stored
         /\ listed' = <<>>
         /\ stages' = <<>>
         /\ calls' = <<>>
         /\ metric' = metric
         /\ IF ~isRedisFailover
            THEN pc' = "done" /\ result' = "errNotRedisFailover"
            ELSE pc' = "ensure" /\ result' = "none"
    /\ UNCHANGED <<pods, nodes, sentinels, objects, stored>>

\* Add: the type assertion and rf.Validate
AddBegin ==
    /\ pc = "idle"
    /\ \E isRedisFailover \in BOOLEAN :
         /\ rf' = stored
         /\ listed' = <<>>
         /\ stages' = <<>>
         /\ IF ~isRedisFailover
            THEN /\ pc' = "done"
                 /\ result' = "errNotRedisFailover"
                 /\ calls' = <<>>
                 /\ metric' = metric
            ELSE IF ~Validate(stored)
            THEN /\ pc' = "done"
                 /\ result' = "errValidate"
                 /\ calls' = <<SetClusterError>>
                 /\ metric' = "error"
            ELSE /\ pc' = "ensure"
                 /\ result' = "none"
                 /\ calls' = <<>>
                 /\ metric' = metric
    /\ UNCHANGED <<pods, nodes, sentinels, objects, stored>>

\* Add going on to CheckAndHeal whatever Ensure returned
AddEnsure_IgnoresError ==
    /\ pc = "ensure"
    /\ \E fail \in 0..Len(EnsureCalls(rf)) :
         LET oRefs == createOwnerReferences(rf)
             r == Ensure([rf |-> rf, objects |-> objects, calls |-> calls,
                          err |-> FALSE], oRefs, fail)
         IN  /\ objects' = r.objects
             /\ rf' = r.rf
             /\ stages' = Append(stages, Stage("Ensure", ~r.err))
             /\ calls' = r.calls
             /\ pc' = "checkandheal"
    /\ UNCHANGED <<pods, nodes, sentinels, stored, listed, metric, result>>

\* Add: r.Ensure(rf, labels, oRefs) and its error branch
AddEnsure ==
    /\ pc = "ensure"
    /\ \E fail \in 0..Len(EnsureCalls(rf)) :
         LET oRefs == createOwnerReferences(rf)
             r == Ensure([rf |-> rf, objects |-> objects, calls |-> calls,
                          err |-> FALSE], oRefs, fail)
         IN  /\ objects' = r.objects
             /\ rf' = r.rf
             /\ stages' = Append(stages, Stage("Ensure", ~r.err))
             /\ IF r.err
                THEN /\ calls' = Append(r.calls, SetClusterError)
                     /\ metric' = "error"
                     /\ result' = "errEnsure"
                     /\ pc' = "done"
                ELSE /\ calls' = r.calls
                     /\ metric' = metric
                     /\ result' = result
                     /\ pc' = "checkandheal"
    /\ UNCHANGED <<pods, nodes, sentinels, stored, listed>>

\* Add: the error branch taken when CheckAndHeal returns an error; cs
\* and ss are the calls and stages of the pass up to the error
CheckAndHealFails(cs, ss) ==
    /\ calls' = Append(cs, SetClusterError)
    /\ stages' = Append(ss, Stage("CheckAndHeal", FALSE))
    /\ metric' = "error"
    /\ result' = "errCheckAndHeal"
    /\ pc' = "done"

\* CheckAndHeal: the topology cannot be enumerated
CheckFails ==
    /\ pc = "checkandheal"
    /\ CheckAndHealFails(Append(calls, ListCall(FALSE)), stages)
    /\ UNCHANGED <<pods, nodes, sentinels, objects, stored, rf, listed>>

\* CheckAndHeal: exactly one live master, nothing to resolve
MasterResolved ==
    /\ pc = "checkandheal"
    /\ Cardinality(Masters) = 1
    /\ pc' = "sentinels"
    /\ UNCHANGED <<pods, nodes, sentinels, objects, stored, rf, result, calls,
                   stages, listed, metric>>

\* CheckAndHeal after a healer operation returned r
HealerReturns(name, r) ==
    /\ nodes' = r.nodes
    /\ IF r.err
       THEN CheckAndHealFails(r.calls, Append(stages, Stage(name, FALSE)))
       ELSE /\ calls' = r.calls
            /\ stages' = Append(stages, Stage(name, TRUE))
            /\ pc' = "sentinels"
            /\ UNCHANGED <<metric, result>>

\* the handler runs where no redis process answers at its own host
HealerState ==
    [nodes |-> nodes, calls |-> calls, err |-> FALSE, emptyAnswers |-> FALSE]

\* CheckAndHeal: NoMaster, healed by SetOldestAsMaster
HealNoMaster ==
    /\ pc = "checkandheal"
    /\ Cardinality(Masters) = 0
    /\ \/ /\ listed' = <<>>
          /\ HealerReturns("SetOldestAsMaster",
                           SetOldestAsMaster(HealerState, TRUE, <<>>, <<>>, {}))
       \/ \E o \in Orders(NPods), rej \in Refusing(PodIds) :
            \E sorted \in SortSlice(Listing(o)) :
               /\ listed' = Listing(o)
               /\ HealerReturns("SetOldestAsMaster",
                                SetOldestAsMaster(HealerState, FALSE,
                                                  Listing(o), sorted, rej))
    /\ UNCHANGED <<pods, sentinels, objects, stored, rf>>

\* CheckAndHeal: MultipleMasters, healed by SetMasterOnAll on the survivor
HealMultipleMasters ==
    /\ pc = "checkandheal"
    /\ Cardinality(Masters) > 1
    /\ LET masterIP == pods[Survivor(Masters)].PodIP
       IN  \/ /\ listed' = <<>>
              /\ HealerReturns("SetMasterOnAll",
                               SetMasterOnAll(HealerState, masterIP, TRUE,
                                              <<>>, {}))
           \/ \E o \in Orders(NPods), rej \in Refusing(PodIds) :
                /\ listed' = Listing(o)
                /\ HealerReturns("SetMasterOnAll",
                                 SetMasterOnAll(HealerState, masterIP, FALSE,
                                                Listing(o), rej))
    /\ UNCHANGED <<pods, sentinels, objects, stored, rf>>

\* the sentinel stage from sentinel j on: RestoreSentinel, then
\* NewSentinelMonitor, for every sentinel found misconfigured
RECURSIVE SentinelLoop(_, _, _, _)
SentinelLoop(st, j, masterIP, rej) ==
    IF j > Len(st.sentinels) THEN st
    ELSE IF ~Misconfigured(st.sentinels[j], masterIP)
    THEN SentinelLoop(st, j + 1, masterIP, rej)
    ELSE LET ip == st.sentinels[j].PodIP
             r1 == RestoreSentinel(st, ip, rej)
             r2 == NewSentinelMonitor(r1, ip, masterIP, rf, rej)
         IN  IF r1.err THEN r1
             ELSE IF r2.err THEN r2
             ELSE SentinelLoop(r2, j + 1, masterIP, rej)

\* CheckAndHeal: the sentinel stage, then CheckAndHeal returns
HealSentinels ==
    /\ pc = "sentinels"
    /\ listed' = <<>>
    /\ \E rej \in Refusing(SentinelIds) :
         LET masterIP == pods[Min(Masters)].PodIP
             r == SentinelLoop([sentinels |-> sentinels, calls |-> calls,
                                err |-> FALSE], 1, masterIP, rej)
         IN  /\ sentinels' = r.sentinels
             /\ IF r.err
                THEN CheckAndHealFails(r.calls, stages)
                ELSE /\ calls' = r.calls
                     /\ stages' = Append(stages, Stage("CheckAndHeal", TRUE))
                     /\ pc' = "status"
                     /\ UNCHANGED <<metric, result>>
    /\ UNCHANGED <<pods, nodes, objects, stored, rf>>

\* Add: r.setRedisFailoverStatus(rf), its error branch and SetClusterOK
AddSetStatus ==
    /\ pc = "status"
    /\ \E listErr \in BOOLEAN, updateErr \in BOOLEAN :
         LET redisNodes == GetRedisesIPandHostIPs([k \in PodIds |-> k])
             get == Call("GetRedisesIPandHostIPs", NoIP, NoArg, ~listErr)
             upd == Call("UpdateRedisFailovers", NoIP, NoArg, ~updateErr)
             rf1 == [rf EXCEPT !.Status.RedisNodes = redisNodes]
         IN  IF listErr
             THEN /\ calls' = Append(calls, get)
                  /\ stages' = Append(stages, Stage("setRedisFailoverStatus", FALSE))
                  /\ result' = "errStatus"
                  /\ UNCHANGED <<rf, stored, metric>>
             ELSE IF updateErr
             THEN /\ calls' = calls \o <<get, upd>>
                  /\ stages' = Append(stages, Stage("setRedisFailoverStatus", FALSE))
                  /\ rf' = rf1
                  /\ result' = "errStatus"
                  /\ UNCHANGED <<stored, metric>>
             ELSE /\ calls' = calls \o <<get, upd, SetClusterOK>>
                  /\ stages' = Append(stages, Stage("setRedisFailoverStatus", TRUE))
                  /\ rf' = rf1
                  /\ stored' = rf1
                  /\ metric' = "ok"
                  /\ result' = "nil"
    /\ pc' = "done"
    /\ UNCHANGED <<pods, nodes, sentinels, objects, listed>>

\* Add has returned; the handler waits for the next event
AddReturn ==
    /\ pc = "done"
    /\ pc' = "idle"
    /\ result' = "none"
    /\ rf' = stored
    /\ calls' = <<>>
    /\ stages' = <<>>
    /\ UNCHANGED <<pods, nodes, sentinels, objects, stored, listed, metric>>

(* --------------------------- initial states ---------------------------- *)
\* creation times of n pods, the pods numbered from the oldest on; two
\* neighbours were created at the same time or one tick apart
CreationTimes(n) ==
    {t \in [1..n -> 1..MaxPods] :
        \A i \in 1..n : IF i = 1 THEN t[i] = 1
                        ELSE t[i] \in {t[i - 1], t[i - 1] + 1}}

HostOf(i) == IF i % 2 = 1 THEN "hostA" ELSE "hostB"

\* the ways at most MaxFaulty of n pods are out of order: a pod that does
\* not answer, or a pod that has no address yet
Faults(n) ==
    {f \in [1..n -> {"ok", "down", "noip"}] :
        Cardinality({i \in 1..n : f[i] # "ok"}) <= MaxFaulty}

\* the pod lists of n pods, pod i at address i unless it has none
PodLists(n) ==
    {[i \in 1..n |-> [PodIP |-> IF f[i] = "noip" THEN NoIP ELSE i,
                      HostIP |-> HostOf(i),
                      CreationTimestamp |-> t[i]]] :
        t \in CreationTimes(n), f \in Faults(n)}

\* the states the redis processes of a pod list can be in: reachable if
\* the pod has an address (and, for some pods, not even then); master or
\* replica of another address
NodeStates(pl) ==
    {ns \in [1..Len(pl) -> [up : BOOLEAN, slaveOf : 0..Len(pl)]] :
        /\ \A i \in 1..Len(pl) : ns[i].slaveOf # i
        /\ \A i \in 1..Len(pl) : pl[i].PodIP = NoIP => ~ns[i].up
        /\ Cardinality({i \in 1..Len(pl) : ~ns[i].up}) <= MaxFaulty}

\* n sentinels, all of them configured alike
SentinelStates(n) ==
    {[j \in 1..n |-> c] : c \in [monitor : {NoIP, 1}, quorum : {1, 2}]}

SentinelList(ss) ==
    [j \in DOMAIN ss |-> [PodIP |-> MaxPods + j, HostIP |-> HostOf(j),
                          monitor |-> ss[j].monitor, quorum |-> ss[j].quorum]]

\* a status an earlier pass left behind, written when other pods were live
StaleStatus ==
    RedisFailoverStatus(<<RedisNode(MaxPods + MaxSentinels + 1, "hostC", TRUE),
                          RedisNode(1, "hostA", FALSE)>>, <<>>)

EmptyStatus == RedisFailoverStatus(<<>>, <<>>)

DefaultSpec == RedisFailoverSpec(MaxPods, MaxSentinels, FALSE)

InitControl ==
    /\ rf = stored
    /\ pc = "idle"
    /\ result = "none"
    /\ calls = <<>>
    /\ stages = <<>>
    /\ listed = <<>>
    /\ metric = "unset"

\* every redis topology, one sentinel, the default spec
InitTopology ==
    /\ \E n \in 0..MaxPods : pods \in PodLists(n)
    /\ nodes \in NodeStates(pods)
    /\ sentinels = SentinelList(<<[monitor |-> NoIP, quorum |-> 1]>>)
    /\ objects = {}
    /\ stored = RedisFailover(DefaultSpec, EmptyStatus)

\* two redis pods, every sentinel population, declared spec and status
InitInstance ==
    /\ pods \in {pl \in PodLists(2) :
                   /\ pl[1].CreationTimestamp < pl[2].CreationTimestamp
                   /\ \A i \in 1..2 : pl[i].PodIP # NoIP}
    /\ nodes \in {ns \in NodeStates(pods) : \A i \in 1..2 : ns[i].up}
    /\ \E n \in 0..MaxSentinels :
         sentinels \in {SentinelList(ss) : ss \in SentinelStates(n)}
    /\ objects = {}
    /\ \E rr \in {0, MaxPods}, sr \in 0..(MaxSentinels + 1), ex \in BOOLEAN,
          status \in {EmptyStatus, StaleStatus} :
         stored = RedisFailover(RedisFailoverSpec(rr, sr, ex), status)

Init == (InitTopology \/ InitInstance) /\ InitControl

\* the topologies of reachable pods of different age, one sentinel, the
\* default spec
InitLive ==
    /\ \E n \in 1..MaxPods :
         pods \in {pl \in PodLists(n) :
                     \A i \in 1..n : /\ pl[i].CreationTimestamp = i
                                     /\ pl[i].PodIP # NoIP}
    /\ nodes \in {ns \in NodeStates(pods) : \A i \in DOMAIN ns : ns[i].up}
    /\ sentinels = SentinelList(<<[monitor |-> NoIP, quorum |-> 1]>>)
    /\ objects = {}
    /\ stored = RedisFailover(DefaultSpec, EmptyStatus)
    /\ InitControl

Next ==
    \/ AddBegin
    \/ AddEnsure
    \/ CheckFails
    \/ MasterResolved
    \/ HealNoMaster
    \/ HealMultipleMasters
    \/ HealSentinels
    \/ AddSetStatus
    \/ AddReturn

Spec == Init /\ [][Next]_vars

\* the handler under a dispatcher that keeps delivering events: a pass
\* that has begun runs to its return and the next event begins a pass
SpecLive == InitLive /\ [][Next]_vars /\ WF_vars(Next)

(* ----------------------- the healer on its own ------------------------- *)
\* Each operation of RedisFailoverHealer is invoked on a topology, and
\* invoked once more with the same arguments after it returned success;
\* the second time every node answers, and the pods may be listed in
\* another order.  result holds the last invocation.

\* the addresses an operation is handed: those of the pods and one that
\* no pod has
HealerIPs == 1..(MaxPods + 1)

\* the declared custom config lines
ConfigLines == <<"maxmemory 1gb", "appendonly yes">>

Invocation(op, args, err) == [op |-> op, args |-> args, err |-> err]

\* reachable pods of n pods, any of them of the same age, no config applied
InitHealer ==
    /\ \E n \in 0..MaxPods :
         pods \in {pl \in PodLists(n) : \A i \in 1..n : pl[i].PodIP # NoIP}
    /\ \E ns \in NodeStates(pods) :
         /\ \A i \in DOMAIN ns : ns[i].up
         /\ nodes = [i \in DOMAIN ns |->
                       [up |-> TRUE, slaveOf |-> ns[i].slaveOf, config |-> <<>>]]
    /\ sentinels = <<[PodIP |-> MaxPods + 1, HostIP |-> HostOf(1),
                      monitor |-> NoIP, quorum |-> 1, config |-> <<>>]>>
    /\ objects = {}
    /\ stored = RedisFailover(WithCustomConfig(DefaultSpec, ConfigLines,
                                               ConfigLines), EmptyStatus)
    /\ rf = stored
    /\ pc = "healer"
    /\ result = Invocation("none", <<>>, FALSE)
    /\ calls = <<>>
    /\ stages = <<>>
    /\ listed = <<>>
    /\ metric = "unset"

\* op returned success and may be invoked once more
ReInvoked(op) ==
    /\ Len(stages) = 1
    /\ stages[1] = Stage(op, TRUE)
    /\ result.op = op

CanInvoke(op) == pc = "healer" /\ (stages = <<>> \/ ReInvoked(op))

\* how a repeated invocation is constrained: the same arguments, no node
\* refusing
Repeats(op, args, rej) == ReInvoked(op) => (args = result.args /\ rej = {})

\* the invocation of op with args returned r
HealerInvoked(op, args, r) ==
    /\ stages' = Append(stages, Stage(op, ~r.err))
    /\ result' = Invocation(op, args, r.err)
    /\ calls' = r.calls

SentinelState == [sentinels |-> sentinels, calls |-> calls, err |-> FALSE]

InvokeMakeMaster ==
    /\ CanInvoke("MakeMaster")
    /\ \E ip \in HealerIPs, rej \in Refusing(PodIds) :
         /\ Repeats("MakeMaster", <<ip>>, rej)
         /\ LET r == MakeMaster(HealerState, ip, rej)
            IN  nodes' = r.nodes /\ HealerInvoked("MakeMaster", <<ip>>, r)
    /\ UNCHANGED <<pods, sentinels, objects, stored, rf, pc, listed, metric>>

\* the sort of the first invocation ended in the order sorted: its node
\* commands went to the pods in that order
SortedAsBefore(sorted) ==
    \A k \in 1..Len(sorted) : calls[k + 1].ip = pods[sorted[k]].PodIP

InvokeSetOldestAsMaster ==
    /\ CanInvoke("SetOldestAsMaster")
    /\ \/ /\ stages = <<>>
          /\ listed' = <<>>
          /\ nodes' = nodes
          /\ HealerInvoked("SetOldestAsMaster", <<>>,
                           SetOldestAsMaster(HealerState, TRUE, <<>>, <<>>, {}))
       \/ \E o \in Orders(NPods), rej \in Refusing(PodIds) :
            \E sorted \in SortSlice(Listing(o)) :
               /\ Repeats("SetOldestAsMaster", <<>>, rej)
               /\ (ReInvoked("SetOldestAsMaster") /\ listed = Listing(o))
                     => SortedAsBefore(sorted)
               /\ listed' = Listing(o)
               /\ LET r == SetOldestAsMaster(HealerState, FALSE, Listing(o),
                                             sorted, rej)
                  IN  nodes' = r.nodes
                      /\ HealerInvoked("SetOldestAsMaster", <<>>, r)
    /\ UNCHANGED <<pods, sentinels, objects, stored, rf, pc, metric>>

InvokeSetMasterOnAll ==
    /\ CanInvoke("SetMasterOnAll")
    /\ \E masterIP \in HealerIPs :
         \/ /\ stages = <<>>
            /\ listed' = <<>>
            /\ nodes' = nodes
            /\ HealerInvoked("SetMasterOnAll", <<masterIP>>,
                             SetMasterOnAll(HealerState, masterIP, TRUE, <<>>, {}))
         \/ \E o \in Orders(NPods), rej \in Refusing(PodIds) :
              /\ Repeats("SetMasterOnAll", <<masterIP>>, rej)
              /\ listed' = Listing(o)
              /\ LET r == SetMasterOnAll(HealerState, masterIP, FALSE,
                                         Listing(o), rej)
                 IN  nodes' = r.nodes
                     /\ HealerInvoked("SetMasterOnAll", <<masterIP>>, r)
    /\ UNCHANGED <<pods, sentinels, objects, stored, rf, pc, metric>>

InvokeNewSentinelMonitor ==
    /\ CanInvoke("NewSentinelMonitor")
    /\ \E j \in SentinelIds, monitor \in HealerIPs, rej \in Refusing(SentinelIds) :
         /\ Repeats("NewSentinelMonitor", <<sentinels[j].PodIP, monitor>>, rej)
         /\ LET r == NewSentinelMonitor(SentinelState, sentinels[j].PodIP,
                                        monitor, rf, rej)
            IN  sentinels' = r.sentinels
                /\ HealerInvoked("NewSentinelMonitor",
                                 <<sentinels[j].PodIP, monitor>>, r)
    /\ UNCHANGED <<pods, nodes, objects, stored, rf, pc, listed, metric>>

InvokeRestoreSentinel ==
    /\ CanInvoke("RestoreSentinel")
    /\ \E j \in SentinelIds, rej \in Refusing(SentinelIds) :
         /\ Repeats("RestoreSentinel", <<sentinels[j].PodIP>>, rej)
         /\ LET r == RestoreSentinel(SentinelState, sentinels[j].PodIP, rej)
            IN  sentinels' = r.sentinels
                /\ HealerInvoked("RestoreSentinel", <<sentinels[j].PodIP>>, r)
    /\ UNCHANGED <<pods, nodes, objects, stored, rf, pc, listed, metric>>

InvokeSetSentinelCustomConfig ==
    /\ CanInvoke("SetSentinelCustomConfig")
    /\ \E j \in SentinelIds, rej \in Refusing(SentinelIds) :
         /\ Repeats("SetSentinelCustomConfig", <<sentinels[j].PodIP>>, rej)
         /\ LET r == SetSentinelCustomConfig(SentinelState,
                                             sentinels[j].PodIP, rf, rej)
            IN  sentinels' = r.sentinels
                /\ HealerInvoked("SetSentinelCustomConfig",
                                 <<sentinels[j].PodIP>>, r)
    /\ UNCHANGED <<pods, nodes, objects, stored, rf, pc, listed, metric>>

InvokeSetRedisCustomConfig ==
    /\ CanInvoke("SetRedisCustomConfig")
    /\ \E ip \in HealerIPs, rej \in Refusing(PodIds) :
         /\ Repeats("SetRedisCustomConfig", <<ip>>, rej)
         /\ LET r == SetRedisCustomConfig(HealerState, ip, rf, rej)
            IN  nodes' = r.nodes
                /\ HealerInvoked("SetRedisCustomConfig", <<ip>>, r)
    /\ UNCHANGED <<pods, sentinels, objects, stored, rf, pc, listed, metric>>

NextHealer ==
    \/ InvokeMakeMaster
    \/ InvokeSetOldestAsMaster
    \/ InvokeSetMasterOnAll
    \/ InvokeNewSentinelMonitor
    \/ InvokeRestoreSentinel
    \/ InvokeSetSentinelCustomConfig
    \/ InvokeSetRedisCustomConfig

SpecHealer == InitHealer /\ [][NextHealer]_vars

(* -------------------- SetOldestAsMaster on its own --------------------- *)
\* SetOldestAsMaster applied to every pod list, pods without an address
\* included, with a client whose command for the empty address fails or
\* is answered by a redis process on the client's own host.

InitOldest ==
    /\ \E n \in 0..MaxPods : pods \in PodLists(n)
    /\ nodes \in NodeStates(pods)
    /\ sentinels = SentinelList(<<[monitor |-> NoIP, quorum |-> 1]>>)
    /\ objects = {}
    /\ stored = RedisFailover(DefaultSpec, EmptyStatus)
    /\ rf = stored
    /\ pc = "healer"
    /\ result = Invocation("none", <<>>, FALSE)
    /\ calls = <<>>
    /\ stages = <<>>
    /\ listed = <<>>
    /\ metric = "unset"

RunSetOldestAsMaster ==
    /\ pc = "healer"
    /\ stages = <<>>
    /\ \E emptyAnswers \in BOOLEAN :
         LET st == [nodes |-> nodes, calls |-> calls, err |-> FALSE,
                    emptyAnswers |-> emptyAnswers]
         IN  \/ /\ ~emptyAnswers
                /\ listed' = <<>>
                /\ nodes' = nodes
                /\ HealerInvoked("SetOldestAsMaster", <<>>,
                                 SetOldestAsMaster(st, TRUE, <<>>, <<>>, {}))
             \/ \E o \in Orders(NPods), rej \in Refusing(PodIds) :
                  \E sorted \in SortSlice(Listing(o)) :
                     /\ listed' = Listing(o)
                     /\ LET r == SetOldestAsMaster(st, FALSE, Listing(o),
                                                   sorted, rej)
                        IN  nodes' = r.nodes
                            /\ HealerInvoked("SetOldestAsMaster", <<>>, r)
    /\ UNCHANGED <<pods, sentinels, objects, stored, rf, pc, metric>>

NextOldest == RunSetOldestAsMaster

SpecOldest == InitOldest /\ [][NextOldest]_vars

(* ------------------- the instance and its objects ---------------------- *)
\* Passes over one converged pair of redis pods while the user edits the
\* declared spec between passes and in the end deletes the instance.

\* the persistent volume claims a user declares: none, or one without
\* owner references
DeclaredClaims == {Nil, <<PersistentVolumeClaim(<<>>)>>}

InitObjects ==
    /\ pods = <<[PodIP |-> 1, HostIP |-> HostOf(1), CreationTimestamp |-> 1],
                [PodIP |-> 2, HostIP |-> HostOf(2), CreationTimestamp |-> 2]>>
    /\ nodes = <<[up |-> TRUE, slaveOf |-> NoIP], [up |-> TRUE, slaveOf |-> 1]>>
    /\ sentinels = SentinelList(<<[monitor |-> NoIP, quorum |-> 1]>>)
    /\ objects = {}
    /\ \E exporter \in BOOLEAN, keep \in BOOLEAN, claim \in DeclaredClaims :
         stored = RedisFailover(
                     WithStorage(RedisFailoverSpec(MaxPods, MaxSentinels, exporter),
                                 RedisStorage(keep, claim)),
                     EmptyStatus)
    /\ InitControl

\* the user updates the declared spec of the stored instance: the exporter
\* is switched, or KeepAfterDeletion is; the fields the user does not
\* touch stay as they are stored
UpdateSpec ==
    /\ pc = "idle"
    /\ \/ stored' = [stored EXCEPT !.Spec.Redis.Exporter.Enabled = ~@]
       \/ stored' = [stored EXCEPT !.Spec.Redis.Storage.KeepAfterDeletion = ~@]
    /\ rf' = stored'
    /\ UNCHANGED <<pods, nodes, sentinels, objects, pc, result, calls, stages,
                   listed, metric>>

\* RedisFailoverHandler.Delete: the metrics of the instance are dropped
\* when its key has a namespace and a name; nothing else is done
Delete ==
    /\ pc = "idle"
    /\ \E keyHasTwoParts \in BOOLEAN :
         IF keyHasTwoParts
         THEN /\ calls' = <<Call("DeleteCluster", NoIP, NoArg, TRUE)>>
              /\ metric' = "unset"
         ELSE /\ calls' = <<>>
              /\ metric' = metric
    /\ result' = "nil"
    /\ stages' = <<>>
    /\ pc' = "deleted"
    /\ UNCHANGED <<pods, nodes, sentinels, objects, stored, rf, listed>>

\* the objects owned by the controller reference of the instance
Owned == {o \in objects : ControllerRef \in Range(o.OwnerReferences)}

\* the garbage collector of the object store removes what the deleted
\* instance owned
GarbageCollect ==
    /\ pc = "deleted"
    /\ Owned # {}
    /\ objects' = objects \ Owned
    /\ UNCHANGED <<pods, nodes, sentinels, stored, rf, pc, result, calls,
                   stages, listed, metric>>

NextObjects ==
    \/ AddBegin
    \/ AddEnsure
    \/ CheckFails
    \/ MasterResolved
    \/ HealSentinels
    \/ AddSetStatus
    \/ AddReturn
    \/ UpdateSpec
    \/ Delete
    \/ GarbageCollect

SpecObjects == InitObjects /\ [][NextObjects]_vars

(* ------------------------- getQuorum on its own ------------------------ *)
\* the sentinel replica counts getQuorum is applied to
QuorumInputs == (-MaxReplicas..MaxReplicas) \cup {MaxInt32}

InitQuorum ==
    /\ \E rr \in 0..MaxPods, sr \in QuorumInputs, ex \in BOOLEAN :
         stored = RedisFailover(RedisFailoverSpec(rr, sr, ex), EmptyStatus)
    /\ rf = stored
    /\ pc = "getQuorum"
    /\ result = "none"
    /\ pods = <<>>
    /\ nodes = <<>>
    /\ sentinels = <<>>
    /\ objects = {}
    /\ calls = <<>>
    /\ stages = <<>>
    /\ listed = <<>>
    /\ metric = "unset"

\* one application of getQuorum to rf; result holds what it returned
ApplyGetQuorum ==
    /\ pc = "getQuorum"
    /\ result' = getQuorum(rf)
    /\ pc' = "returned"
    /\ UNCHANGED <<pods, nodes, sentinels, objects, stored, rf, calls, stages,
                   listed, metric>>

NextQuorum == ApplyGetQuorum

SpecQuorum == InitQuorum /\ [][NextQuorum]_vars

(* ------------------------ reading the call log ------------------------- *)
Issued(ops) == {k \in 1..Len(calls) : calls[k].op \in ops}

NodeCommands == {"MakeMaster", "MakeSlaveOf"}
SentinelCommands == {"ResetSentinel", "MonitorRedis"}
EnsureOps == Range(EnsureCalls(rf)) \cup {"EnsureRedisService",
                                          "EnsureNotPresentRedisService"}
StatusOps == {"GetRedisesIPandHostIPs", "UpdateRedisFailovers"}

Returned(name, ok) == \E k \in 1..Len(stages) : stages[k] = Stage(name, ok)
Ran(name) == Returned(name, TRUE) \/ Returned(name, FALSE)

PassDone == pc = "done"
PassSucceeded == pc = "done" /\ result = "nil"

\* the pods created earliest
Oldest == {i \in PodIds : \A j \in PodIds : ~Before(j, i)}

(* ------------------------------- claims -------------------------------- *)

\* C1: when a full pass completes (Add returns nil) over a topology with at
\* least one live redis node, exactly one live node reports master.
C1_OneMasterAfterPass ==
    (PassSucceeded /\ Live # {}) => Cardinality(Masters) = 1

\* C1 witness: a pass that found no master among two or more live nodes,
\* promoted one and completed.
C1_Witness ==
    /\ PassSucceeded
    /\ Cardinality(Live) >= 2
    /\ Returned("SetOldestAsMaster", TRUE)
    /\ Cardinality(Masters) = 1

HandlerStages ==
    SelectSeq(stages, LAMBDA x : x.stage \in {"Ensure", "CheckAndHeal",
                                              "setRedisFailoverStatus"})

StageOrder == <<"Ensure", "CheckAndHeal", "setRedisFailoverStatus">>

\* the calls CheckAndHeal issues
HealOps == NodeCommands \cup SentinelCommands \cup {"GetStatefulSetPods"}

\* C4: the stages of Add run in the order Ensure, CheckAndHeal, status
\* write, each at most once and only after the previous one returned
\* success; a failed stage ends the pass with an error and nothing of a
\* later stage is called; the status is written at most once, and only
\* after Ensure and CheckAndHeal succeeded.
C4_StagesInOrder ==
    /\ Len(HandlerStages) <= Len(StageOrder)
    /\ \A k \in 1..Len(HandlerStages) :
          /\ HandlerStages[k].stage = StageOrder[k]
          /\ k < Len(HandlerStages) => HandlerStages[k].ok
    /\ \A k \in Issued(HealOps \cup StatusOps) :
          /\ Returned("Ensure", TRUE)
          /\ \A e \in Issued(EnsureOps) : e < k /\ calls[e].ok
    /\ \A k \in Issued(StatusOps) :
          /\ Returned("CheckAndHeal", TRUE)
          /\ \A h \in Issued(HealOps) : h < k /\ calls[h].ok
    /\ Cardinality(Issued({"UpdateRedisFailovers"})) <= 1
    /\ (Returned("Ensure", FALSE) \/ Returned("CheckAndHeal", FALSE)) =>
          /\ PassDone
          /\ result \in {"errEnsure", "errCheckAndHeal"}
          /\ Issued(StatusOps) = {}

\* C4 witness: a pass aborted by a failed Ensure call after earlier Ensure
\* calls had succeeded.
C4_Witness ==
    /\ PassDone
    /\ Returned("Ensure", FALSE)
    /\ \E e \in Issued(EnsureOps) : calls[e].ok
    /\ Issued(HealOps \cup StatusOps) = {}

\* C5: a declared spec that fails validation ends the pass before stage 1:
\* no Ensure call, no check or heal command and no status write is issued.
C5_ValidationAborts ==
    (pc # "idle" /\ ~Validate(rf)) =>
        /\ PassDone
        /\ result \in {"errValidate", "errNotRedisFailover"}
        /\ stages = <<>>
        /\ Issued(EnsureOps \cup HealOps \cup StatusOps) = {}

\* C5 witness: Add returned the validation error.
C5_Witness == PassDone /\ result = "errValidate" /\ ~Validate(rf)

\* C6: every pass over an instance (Add was handed a RedisFailover) that
\* ends with an error, whichever step failed, has called SetClusterError
\* for the instance before Add returns.
C6_ErrorRecorded ==
    (PassDone /\ result \notin {"nil", "errNotRedisFailover"}) =>
        Issued({"SetClusterError"}) # {} /\ metric = "error"

\* C7: the status a successful pass leaves in the store holds the redis and
\* the sentinel node list recomputed from the live pods of the pass, and
\* neither list is longer than the live pods are many.
C7_StatusReplaced ==
    PassSucceeded =>
        /\ stored.Status.RedisNodes = GetRedisesIPandHostIPs([k \in PodIds |-> k])
        /\ stored.Status.SentinelNodes = SentinelViews
        /\ Len(stored.Status.RedisNodes) <= Cardinality(Live)
        /\ Len(stored.Status.SentinelNodes) <= Len(sentinels)

\* the quorum carried by the k-th call, a MonitorRedis
SentQuorum(k) == ParseQuorum(calls[k].arg[2])

C9_QuorumLaw ==
    (pc = "returned" /\ rf.Spec.Sentinel.Replicas >= 1) =>
        LET N == rf.Spec.Sentinel.Replicas
            q == result
        IN  /\ q >= 1
            /\ q > N - q
            /\ q - 1 <= N - (q - 1)
            /\ N = 1 => q = 1
            /\ N = 2 => q = 2
            /\ N = 3 => q = 2
            /\ N = 5 => q = 3

\* C9 witness: getQuorum returned 3 for five sentinels.
C9_Witness ==
    pc = "returned" /\ rf.Spec.Sentinel.Replicas = 5 /\ result = 3

\* C10: a failed MakeMaster or MakeSlaveOf is the last node command of its
\* healer operation, and the operation returns an error.
C10_FailedCallSurfaces ==
    \A k \in Issued(NodeCommands) :
        ~calls[k].ok =>
            /\ \A j \in Issued(NodeCommands) : j <= k
            /\ ~Returned("SetOldestAsMaster", TRUE)
            /\ ~Returned("SetMasterOnAll", TRUE)
            /\ Returned("SetOldestAsMaster", FALSE)
                  \/ Returned("SetMasterOnAll", FALSE)

\* C10 witness: a MakeSlaveOf failed after earlier node commands of the
\* operation had succeeded.
C10_Witness ==
    \E k \in Issued({"MakeSlaveOf"}) :
        /\ ~calls[k].ok
        /\ \E j \in Issued(NodeCommands) : j < k /\ calls[j].ok
        /\ PassDone /\ result = "errCheckAndHeal"

\* the status a pass writes when it sees the pods as they are now
ObservedRedisNodes == GetRedisesIPandHostIPs([k \in PodIds |-> k])

\* C12: a pass in which a node command to a pod that is not the selected
\* master fails (the pod is unreachable) still succeeds, and the status it
\* writes holds the live nodes only.
C12_UnreachableTolerated ==
    (PassDone /\ \E k \in Issued({"MakeSlaveOf"}) : ~calls[k].ok) =>
        /\ result = "nil"
        /\ stored.Status.RedisNodes = ObservedRedisNodes

\* C13: when the MakeMaster sent to the node selected as master fails, the
\* pass ends with the error of CheckAndHeal, no status call is issued and
\* the stored status is the one the pass was handed.
C13_SelectedUnreachableFails ==
    (\E k \in Issued({"MakeMaster"}) : ~calls[k].ok) =>
        /\ PassDone
        /\ result = "errCheckAndHeal"
        /\ Issued(StatusOps) = {}
        /\ stored.Status = rf.Status

\* C13 witness: the promotion failed in a pass over an instance whose
\* stored status was not empty, and that status is still stored.
C13_Witness ==
    /\ PassDone
    /\ result = "errCheckAndHeal"
    /\ Returned("SetOldestAsMaster", FALSE)
    /\ \E k \in Issued({"MakeMaster"}) : ~calls[k].ok
    /\ stored.Status = StaleStatus

\* the case of C15: three live nodes, two of them masters of different
\* age, the third a replica of one of the two, met by the check of a pass
MultipleMastersCase ==
    /\ pc = "checkandheal"
    /\ NPods = 3
    /\ Live = PodIds
    /\ Cardinality(Masters) = 2
    /\ \A a, b \in Masters : a # b => Before(a, b) \/ Before(b, a)
    /\ \A c \in PodIds \ Masters :
          \E a \in Masters : nodes[c].slaveOf = pods[a].PodIP

\* the older of the masters
OlderMaster == CHOOSE a \in Masters : \A b \in Masters : ~Before(b, a)

\* C15: from three live nodes of which A and B report master and C follows
\* one of them, a pass whose heal succeeds runs SetMasterOnAll, leaves the
\* older of A and B master and the two other nodes replicas of it; the rest
\* of the pass changes no role.
C15_OlderMasterSurvives ==
    [][ /\ (MultipleMastersCase /\ pc' = "sentinels") =>
             /\ Returned("SetMasterOnAll", TRUE)'
             /\ nodes'[OlderMaster].slaveOf = NoIP
             /\ \A i \in PodIds \ {OlderMaster} :
                   /\ nodes'[i].slaveOf = pods[OlderMaster].PodIP
                   /\ \E k \in Issued({"MakeSlaveOf"})' :
                         calls'[k].ip = pods[i].PodIP
             /\ Masters' = {OlderMaster}
        /\ pc \in {"sentinels", "status", "done"} => nodes' = nodes
      ]_vars

\* C15 witness: pods 2 and 3 were the masters (pod 1, the oldest pod, was a
\* replica, or it would have survived); the pass completed with pod 2 the
\* only master and pods 1 and 3 following it.
C15_Witness ==
    /\ PassSucceeded
    /\ NPods = 3
    /\ Live = PodIds
    /\ Before(1, 2) /\ Before(2, 3)
    /\ Returned("SetMasterOnAll", TRUE)
    /\ nodes[2].slaveOf = NoIP
    /\ nodes[1].slaveOf = pods[2].PodIP
    /\ nodes[3].slaveOf = pods[2].PodIP

\* C16: when a MakeSlaveOf fails, the node commands issued before it in the
\* operation keep their effect, no node command follows it, and the pass
\* has ended with the error of CheckAndHeal.
C16_PartialRepointStays ==
    \A k \in Issued({"MakeSlaveOf"}) :
        ~calls[k].ok =>
            /\ PassDone
            /\ result = "errCheckAndHeal"
            /\ \A j \in Issued(NodeCommands) : j <= k
            /\ \A j \in Issued(NodeCommands) :
                  j < k =>
                     /\ calls[j].ok
                     /\ \A i \in NodeAt(calls[j].ip) :
                           nodes[i].slaveOf =
                              IF calls[j].op = "MakeMaster" THEN NoIP
                              ELSE calls[j].arg

\* C16 witness: a pass ended with an error after a MakeSlaveOf failed
\* partway, earlier commands applied, and more than one live node reports
\* master.
C16_Witness ==
    /\ PassDone
    /\ result = "errCheckAndHeal"
    /\ Cardinality(Masters) > 1
    /\ \E k \in Issued({"MakeSlaveOf"}) :
          /\ ~calls[k].ok
          /\ \E j \in Issued({"MakeSlaveOf"}) : j < k /\ calls[j].ok

\* every call the running pass has issued so far returned success
AllCallsOk == \A k \in 1..Len(calls) : calls[k].ok

\* one live master, followed by every other live node
OneMasterFollowed ==
    /\ Cardinality(Masters) = 1
    /\ \A m \in Masters : \A i \in Live \ {m} : nodes[i].slaveOf = pods[m].PodIP

\* no call is issued twice to the same target within one pass
NoRetry ==
    \A j, k \in 1..Len(calls) :
        (j # k /\ calls[j].op = calls[k].op) => calls[j].ip # calls[k].ip

\* a pass that got past validation began with the first call of Ensure
PassFromEnsure ==
    (pc \notin {"idle", "ensure"}
        /\ result \notin {"errValidate", "errNotRedisFailover"}) =>
        /\ Ran("Ensure")
        /\ calls[1].op = EnsureCalls(rf)[1]

Invoked(op) == pc = "healer" /\ result.op = op /\ ~result.err

\* C11: an operation of the healer invoked once more, with the same
\* arguments and every node answering, after it returned success returns
\* no error and changes nothing on any node or sentinel: role, followed
\* master, monitored master, quorum and applied config stay as they were.
C11_ReinvocationIsNoOp ==
    [][ (pc = "healer" /\ Len(stages) = 1 /\ Len(stages') = 2) =>
            /\ stages'[2].ok
            /\ nodes' = nodes
            /\ sentinels' = sentinels
      ]_vars

\* C14 as amended: when SetMasterOnAll(masterIP) returns success and
\* masterIP is the address of a listed pod, that pod is master, every other
\* pod follows masterIP and exactly one live node is master.
C14_AllFollowListedMaster ==
    (Invoked("SetMasterOnAll") /\ NodeAt(result.args[1]) # {}) =>
        /\ \A i \in PodIds :
              nodes[i].slaveOf =
                 IF pods[i].PodIP = result.args[1] THEN NoIP
                 ELSE result.args[1]
        /\ Cardinality(Masters) = 1

\* C14 witness: SetMasterOnAll returned success for the address of one of
\* three pods; that pod is master and the two others follow it.
C14_Witness ==
    /\ Invoked("SetMasterOnAll")
    /\ NPods = 3
    /\ NodeAt(result.args[1]) # {}
    /\ Cardinality(Issued({"MakeSlaveOf"})) >= 2
    /\ \A i \in PodIds \ NodeAt(result.args[1]) :
          nodes[i].slaveOf = result.args[1]

\* C14 as stated: for every masterIP, after SetMasterOnAll(masterIP)
\* returned success the node at masterIP is master, every other pod follows
\* masterIP and exactly one live node is master.
C14_AllFollowAnyMaster ==
    Invoked("SetMasterOnAll") =>
        /\ \A i \in PodIds :
              nodes[i].slaveOf =
                 IF pods[i].PodIP = result.args[1] THEN NoIP
                 ELSE result.args[1]
        /\ Cardinality(Masters) = 1

\* C20: two runs of SetOldestAsMaster over the same pods that both return
\* success send their MakeMaster to the same pod, however the pods were
\* listed and also when pods have the same creation timestamp.
C20_SamePodPromoted ==
    (pc = "healer"
        /\ stages = <<Stage("SetOldestAsMaster", TRUE),
                      Stage("SetOldestAsMaster", TRUE)>>) =>
        \A j, k \in Issued({"MakeMaster"}) : calls[j].ip = calls[k].ip

\* the steps of a pass after it has read the instance
InPass == pc \in {"ensure", "checkandheal", "sentinels", "status"}

\* C18: no stage of a pass modifies the declared spec held by the instance
\* object: across every step of Add, Ensure's generation of the Redis
\* stateful set included, rf.Spec stays what it was, with or without a
\* persistent volume claim and for either value of KeepAfterDeletion.
C18_SpecImmutableInPass ==
    [][InPass => rf'.Spec = rf.Spec]_vars

\* the objects in the store all carry the owner reference of the instance
AllOwned == \A o \in objects : ControllerRef \in Range(o.OwnerReferences)

\* the persistent volume claim templates of the stored stateful set carry
\* the owner reference
TemplatesOwned ==
    \A o \in objects : \A t \in Range(o.VolumeClaimTemplates) :
        ControllerRef \in Range(t.OwnerReferences)

TemplatesUnowned ==
    \A o \in objects : \A t \in Range(o.VolumeClaimTemplates) :
        ControllerRef \notin Range(t.OwnerReferences)

\* C19: Delete issues no command to any node and deletes no object; every
\* object Ensure has generated, and the perceptron deployment, carries the
\* owner reference of the instance, so that the garbage collector removes
\* them all; and after Ensure the persistent volume claim template carries
\* the owner reference exactly when KeepAfterDeletion is false.
C19_OwnershipCleanup ==
    [][ /\ (pc = "idle" /\ pc' = "deleted") =>
              /\ nodes' = nodes /\ sentinels' = sentinels /\ objects' = objects
              /\ \A k \in 1..Len(calls') : calls'[k].op = "DeleteCluster"
        /\ (pc = "deleted" /\ objects' # objects) => objects' = {}
        /\ (pc = "ensure" /\ pc' = "checkandheal") =>
              /\ AllOwned'
              /\ ControllerRef \in
                   Range(generatePerceptronDeployment(
                            rf, createOwnerReferences(rf)).OwnerReferences)
              /\ IF rf'.Spec.Redis.Storage.KeepAfterDeletion
                 THEN TemplatesUnowned' ELSE TemplatesOwned'
      ]_vars

\* C21: one invocation of SetOldestAsMaster issues MakeMaster to at most
\* one pod, an oldest one, and nothing but MakeSlaveOf to the other pods,
\* for every pod list, lists whose oldest pod has no address included.
C21_OnePodPromoted ==
    (pc = "healer" /\ result.op = "SetOldestAsMaster") =>
        /\ Cardinality(Issued({"MakeMaster"})) <= 1
        /\ \A k \in Issued({"MakeMaster"}) :
              \E i \in Oldest : pods[i].PodIP = calls[k].ip

\* the objects of a kind in the store
OfKind(kind) == {o \in objects : o.kind = kind}

\* C22: Ensure issues exactly one of EnsureRedisService and
\* EnsureNotPresentRedisService, the first when Exporter.Enabled and the
\* second when not; after every successful Ensure the Redis service exists
\* if and only if the exporter is enabled in the spec of that pass, and
\* the Redis stateful set has the exporter container if and only if it is,
\* also when the flag was switched between passes.
C22_ExporterFollowsFlag ==
    (InPass /\ Ran("Ensure")) =>
        LET enabled == rf.Spec.Redis.Exporter.Enabled
            service == Issued({"EnsureRedisService",
                               "EnsureNotPresentRedisService"})
        IN  /\ Cardinality(service) = 1
            /\ \A k \in service :
                  calls[k].op = IF enabled THEN "EnsureRedisService"
                                ELSE "EnsureNotPresentRedisService"
            /\ Returned("Ensure", TRUE) =>
                  /\ OfKind("RedisService") # {} <=> enabled
                  /\ Cardinality(OfKind("RedisStatefulset")) = 1
                  /\ \A o \in OfKind("RedisStatefulset") :
                        "redis-exporter" \in Range(o.Containers) <=> enabled

\* C22 witness: a pass after an earlier successful one (its status is
\* stored) whose Ensure succeeded with the exporter disabled: no Redis
\* service is left and the stateful set has the redis container only.
C22_Witness ==
    /\ InPass
    /\ Returned("Ensure", TRUE)
    /\ stored.Status.RedisNodes # <<>>
    /\ ~rf.Spec.Redis.Exporter.Enabled
    /\ OfKind("RedisService") = {}
    /\ \E o \in OfKind("RedisStatefulset") : o.Containers = <<"redis">>

\* the first invocation of op has returned and its pod listing returned ok
FirstRun(op, ok) ==
    /\ pc = "healer"
    /\ Len(stages) = 1
    /\ result.op = op
    /\ calls # <<>> /\ calls[1] = ListCall(ok)

\* C23: when the pod listing fails or returns no pod, SetOldestAsMaster
\* returns an error and has issued no MakeMaster and no MakeSlaveOf;
\* SetMasterOnAll returns an error and has issued no node command when the
\* listing fails, and with an empty pod list it returns success, again
\* without a node command.
C23_ListingFailures ==
    /\ (FirstRun("SetOldestAsMaster", FALSE)
          \/ (FirstRun("SetOldestAsMaster", TRUE) /\ NPods = 0)) =>
          result.err /\ Issued(NodeCommands) = {}
    /\ FirstRun("SetMasterOnAll", FALSE) =>
          result.err /\ Issued(NodeCommands) = {}
    /\ (FirstRun("SetMasterOnAll", TRUE) /\ NPods = 0) =>
          ~result.err /\ Issued(NodeCommands) = {}

\* C23 witness: SetOldestAsMaster was handed an empty pod list by a
\* listing that succeeded and returned an error after that one call.
C23_Witness ==
    /\ FirstRun("SetOldestAsMaster", TRUE)
    /\ NPods = 0
    /\ calls = <<ListCall(TRUE)>>
    /\ stages = <<Stage("SetOldestAsMaster", FALSE)>>

====
